---- MODULE Spec2Model ----
(***************************************************************************)
(* volk_32f_log2_32f: base-2 logarithm kernels over arrays of binary32     *)
(* values (kernels/volk/volk_32f_log2_32f.h).                              *)
(*                                                                         *)
(* A binary32 value is the record [s, e, f] of its three bit fields (sign, *)
(* biased exponent, fraction); the bit pattern is s*2^31 + e*2^23 + f.     *)
(* Arithmetic is IEEE-754 round-to-nearest-even, computed exactly on       *)
(* multi-limb naturals so that no intermediate exceeds 31 bits.            *)
(***************************************************************************)
EXTENDS Integers, Sequences, FiniteSets, TLC

VARIABLES
    mem,            \* the memory: address -> binary32 value
    stores,         \* address -> number of stores the calls have made to it
    call,           \* call id -> the locals of that call of a kernel
    libm_nan_sign   \* the sign bit of the NaN the platform's log2f returns for x < 0

vars == << mem, stores, call, libm_nan_sign >>

(***************************************************************************)
(* Multi-limb naturals: little-endian sequences of limbs in base 2^12,     *)
(* without high zero limbs (zero is the empty sequence).                   *)
(***************************************************************************)
LimbBase == 2 ^ 12

Pow2(k) == 2 ^ k

RECURSIVE BStrip(_)
BStrip(a) ==
    IF a = << >> THEN << >>
    ELSE IF a[Len(a)] = 0 THEN BStrip(SubSeq(a, 1, Len(a) - 1))
    ELSE a

RECURSIVE BFromInt(_)
BFromInt(n) ==
    IF n = 0 THEN << >>
    ELSE << n % LimbBase >> \o BFromInt(n \div LimbBase)

RECURSIVE BToInt(_)
BToInt(a) ==
    IF a = << >> THEN 0
    ELSE Head(a) + LimbBase * BToInt(Tail(a))

RECURSIVE BAddC(_, _, _)
BAddC(a, b, c) ==
    IF a = << >> /\ b = << >>
    THEN (IF c = 0 THEN << >> ELSE << c >>)
    ELSE LET x == IF a = << >> THEN 0 ELSE Head(a)
             y == IF b = << >> THEN 0 ELSE Head(b)
             t == x + y + c
         IN  << t % LimbBase >>
               \o BAddC(IF a = << >> THEN a ELSE Tail(a),
                        IF b = << >> THEN b ELSE Tail(b),
                        t \div LimbBase)

BAdd(a, b) == BAddC(a, b, 0)

\* a - b - c for a >= b + c
RECURSIVE BSubC(_, _, _)
BSubC(a, b, c) ==
    IF a = << >> THEN << >>
    ELSE LET y == IF b = << >> THEN 0 ELSE Head(b)
             t == Head(a) - y - c
         IN  << t % LimbBase >>
               \o BSubC(Tail(a),
                        IF b = << >> THEN b ELSE Tail(b),
                        IF t < 0 THEN 1 ELSE 0)

BSub(a, b) == BStrip(BSubC(a, b, 0))

\* -1, 0, 1 as a < b, a = b, a > b
RECURSIVE BCmpAt(_, _, _)
BCmpAt(a, b, i) ==
    IF i = 0 THEN 0
    ELSE IF a[i] < b[i] THEN -1
    ELSE IF a[i] > b[i] THEN 1
    ELSE BCmpAt(a, b, i - 1)

BCmp(a, b) ==
    IF Len(a) < Len(b) THEN -1
    ELSE IF Len(a) > Len(b) THEN 1
    ELSE BCmpAt(a, b, Len(a))

\* a * d + c for one limb-sized d (d <= 2^12)
RECURSIVE BMulLimb(_, _, _)
BMulLimb(a, d, c) ==
    IF a = << >>
    THEN (IF c = 0 THEN << >> ELSE << c >>)
    ELSE LET t == Head(a) * d + c
         IN  << t % LimbBase >> \o BMulLimb(Tail(a), d, t \div LimbBase)

RECURSIVE BMul(_, _)
BMul(a, b) ==
    IF b = << >> \/ a = << >> THEN << >>
    ELSE BStrip(BAdd(BMulLimb(a, Head(b), 0), << 0 >> \o BMul(a, Tail(b))))

Zeros(n) == [i \in 1..n |-> 0]

BShl(a, k) ==
    IF a = << >> THEN << >>
    ELSE Zeros(k \div 12) \o BMulLimb(a, Pow2(k % 12), 0)

BShr(a, k) ==
    LET q == k \div 12
        r == k % 12
    IN  IF q >= Len(a) THEN << >>
        ELSE LET d == SubSeq(a, q + 1, Len(a))
                 n == Len(d)
             IN  BStrip([i \in 1..n |->
                    (d[i] \div Pow2(r))
                    + (IF i < n THEN (d[i + 1] % Pow2(r)) * Pow2(12 - r) ELSE 0)])

RECURSIVE IntBitLen(_)
IntBitLen(n) == IF n = 0 THEN 0 ELSE 1 + IntBitLen(n \div 2)

BBitLen(a) ==
    IF a = << >> THEN 0
    ELSE 12 * (Len(a) - 1) + IntBitLen(a[Len(a)])

BBit(a, i) ==
    LET q == i \div 12
    IN  IF q >= Len(a) THEN 0
        ELSE (a[q + 1] \div Pow2(i % 12)) % 2

\* TRUE iff the low k bits of a are all zero
BLowZero(a, k) ==
    LET q == k \div 12
    IN  /\ \A i \in 1..q : i > Len(a) \/ a[i] = 0
        /\ (q < Len(a) => a[q + 1] % Pow2(k % 12) = 0)

(***************************************************************************)
(* binary32 values as bit fields.                                          *)
(***************************************************************************)
F32(s, e, f) == [s |-> s, e |-> e, f |-> f]

Float32 == [s : 0..1, e : 0..255, f : 0..(Pow2(23) - 1)]

IsNaN(a) == a.e = 255 /\ a.f # 0

IsInf(a) == a.e = 255 /\ a.f = 0

IsZero(a) == a.e = 0 /\ a.f = 0

PosInf == F32(0, 255, 0)

NegInf == F32(1, 255, 0)

\* the default quiet NaN an invalid arithmetic operation delivers
DefaultNaN == F32(0, 255, Pow2(22))

Neg(a) == F32(1 - a.s, a.e, a.f)

\* a finite value is (-1)^s * Sig * 2^Exp
Sig(a) == IF a.e = 0 THEN a.f ELSE Pow2(23) + a.f

Exp(a) == IF a.e = 0 THEN -149 ELSE a.e - 150

\* (-1)^s * M * 2^q for M <= 2^24, with q the exponent rounding chose
Pack(s, M, q) ==
    IF M = Pow2(24) THEN (IF q + 151 >= 255 THEN F32(s, 255, 0) ELSE F32(s, q + 151, 0))
    ELSE IF M < Pow2(23) THEN F32(s, 0, M)
    ELSE IF q + 150 >= 255 THEN F32(s, 255, 0)
    ELSE F32(s, q + 150, M - Pow2(23))

\* the binary32 nearest to (-1)^s * N * 2^x, ties to even; N a multi-limb natural
RoundPack(s, N, x) ==
    IF N = << >> THEN F32(s, 0, 0)
    ELSE LET q0 == x + BBitLen(N) - 24
             q == IF q0 < -149 THEN -149 ELSE q0
             r == q - x
         IN  IF r <= 0 THEN Pack(s, BToInt(BShl(N, -r)), q)
             ELSE LET M == BToInt(BShr(N, r))
                      up == /\ BBit(N, r - 1) = 1
                            /\ (~BLowZero(N, r - 1) \/ M % 2 = 1)
                  IN  Pack(s, M + (IF up THEN 1 ELSE 0), q)

\* the rounded sum of two exact signed values (-1)^s1 N1 2^x1 + (-1)^s2 N2 2^x2
SignedSum(s1, N1, x1, s2, N2, x2) ==
    LET x0 == IF x1 < x2 THEN x1 ELSE x2
        A == BShl(N1, x1 - x0)
        B == BShl(N2, x2 - x0)
        c == BCmp(A, B)
    IN  IF s1 = s2 THEN RoundPack(s1, BAdd(A, B), x0)
        ELSE IF c = 0 THEN F32(0, 0, 0)
        ELSE IF c > 0 THEN RoundPack(s1, BSub(A, B), x0)
        ELSE RoundPack(s2, BSub(B, A), x0)

\* addps / vaddq_f32, one lane
FAdd(a, b) ==
    IF IsNaN(a) \/ IsNaN(b) \/ (IsInf(a) /\ IsInf(b) /\ a.s # b.s) THEN DefaultNaN
    ELSE IF IsInf(a) THEN a
    ELSE IF IsInf(b) THEN b
    ELSE SignedSum(a.s, BFromInt(Sig(a)), Exp(a), b.s, BFromInt(Sig(b)), Exp(b))

\* subps, one lane
FSub(a, b) == FAdd(a, Neg(b))

\* mulps / vmulq_f32, one lane
FMul(a, b) ==
    LET s == (a.s + b.s) % 2
    IN  IF IsNaN(a) \/ IsNaN(b) \/ (IsInf(a) /\ IsZero(b)) \/ (IsZero(a) /\ IsInf(b))
        THEN DefaultNaN
        ELSE IF IsInf(a) \/ IsInf(b) THEN F32(s, 255, 0)
        ELSE RoundPack(s, BMul(BFromInt(Sig(a)), BFromInt(Sig(b))), Exp(a) + Exp(b))

\* vfmadd: a * b + c with a single rounding, one lane
FMAdd(a, b, c) ==
    LET s == (a.s + b.s) % 2
    IN  IF IsNaN(a) \/ IsNaN(b) \/ IsNaN(c)
           \/ (IsInf(a) /\ IsZero(b)) \/ (IsZero(a) /\ IsInf(b))
           \/ ((IsInf(a) \/ IsInf(b)) /\ IsInf(c) /\ c.s # s)
        THEN DefaultNaN
        ELSE IF IsInf(a) \/ IsInf(b) THEN F32(s, 255, 0)
        ELSE IF IsInf(c) THEN c
        ELSE SignedSum(s, BMul(BFromInt(Sig(a)), BFromInt(Sig(b))), Exp(a) + Exp(b),
                       c.s, BFromInt(Sig(c)), Exp(c))

\* cvtdq2ps / vcvtq_f32_s32, one lane: a 32-bit integer to binary32
CvtI32(n) == RoundPack(IF n < 0 THEN 1 ELSE 0, BFromInt(IF n < 0 THEN -n ELSE n), 0)

\* vcvtq_n_f32_s32(n, fbits), one lane: fixed point with fbits fraction bits
CvtFixed(n, fbits) ==
    RoundPack(IF n < 0 THEN 1 ELSE 0, BFromInt(IF n < 0 THEN -n ELSE n), -fbits)

(***************************************************************************)
(* Bitwise operations on bit patterns, field by field.                     *)
(***************************************************************************)
RECURSIVE BitAnd(_, _)
BitAnd(a, b) ==
    IF a = 0 \/ b = 0 THEN 0
    ELSE (a % 2) * (b % 2) + 2 * BitAnd(a \div 2, b \div 2)

RECURSIVE BitOr(_, _)
BitOr(a, b) ==
    IF a = 0 THEN b
    ELSE IF b = 0 THEN a
    ELSE (IF a % 2 = 1 \/ b % 2 = 1 THEN 1 ELSE 0) + 2 * BitOr(a \div 2, b \div 2)

AndBits(p, q) == F32(BitAnd(p.s, q.s), BitAnd(p.e, q.e), BitAnd(p.f, q.f))

OrBits(p, q) == F32(BitOr(p.s, q.s), BitOr(p.e, q.e), BitOr(p.f, q.f))

\* logical right shift of a pattern by 23: the integer s*2^8 + e
Srl23(p) == p.s * 256 + p.e

\* the integer a pattern with a clear sign bit holds
PatternInt(p) == p.e * Pow2(23) + p.f

(***************************************************************************)
(* The vector bodies, one lane each (every lane of a vector instruction    *)
(* computes the same function of its own element).                         *)
(***************************************************************************)
LOG_POLY_DEGREE == 6

bias == 127

\* _mm_set1_ps(1.0f), 0x3f800000
leadingOne == F32(0, 127, 0)

\* exp_mask with the sign bit kept: 0xff800000
exp_mask_signed == F32(1, 255, 0)

\* _mm_set1_epi32(0x7f800000); exp_mask
exp_mask == F32(0, 255, 0)

\* _mm_set1_epi32(0x7fffff); sig_mask
sig_mask == F32(0, 0, Pow2(23) - 1)

\* the LOG_POLY_DEGREE == 6 table as binary32: 3.1157899f (0x4047691a),
\* -3.3241990f (0xc054bfad), 2.5988452f (0x4026537b), -1.2315303f (0xbf9da2c9),
\* 3.1821337e-1f (0x3ea2ecdd), -3.4436006e-2f (0xbd0d0cc5)
LogPolyCoeffs ==
    << F32(0, 128, 4679962), F32(1, 128, 5554093), F32(0, 128, 2511739),
       F32(1, 127, 1942217), F32(0, 125, 2288861), F32(1, 122, 855237) >>

\* POLY0 .. POLY5 (and POLYn_AVX2): c[1] + x*(c[2] + x*(...)), every multiply
\* and every add rounded
RECURSIVE POLY(_, _)
POLY(x, c) ==
    IF Len(c) = 1 THEN c[1]
    ELSE FAdd(FMul(POLY(x, Tail(c)), x), c[1])

\* POLY0_FMAAVX2 .. POLY5_FMAAVX2: the same scheme with fused multiply-adds
RECURSIVE POLY_FMAAVX2(_, _)
POLY_FMAAVX2(x, c) ==
    IF Len(c) = 1 THEN c[1]
    ELSE FMAdd(POLY_FMAAVX2(x, Tail(c)), x, c[1])

\* exp = ((aVal & 0x7f800000) >> 23) - bias
ExpOf(aVal) == Srl23(AndBits(aVal, exp_mask)) - bias

\* frac = leadingOne | (aVal & 0x7fffff)
FracOf(aVal) == OrBits(leadingOne, AndBits(aVal, sig_mask))

\* Lane_sse4_1 with the weight left out: exp + mantissa
Lane_sse4_1_direct(aVal) ==
    FAdd(CvtI32(ExpOf(aVal)), POLY(FracOf(aVal), LogPolyCoeffs))

\* one lane of the loop body of volk_32f_log2_32f_{a,u}_sse4_1
Lane_sse4_1(aVal) ==
    LET bVal == CvtI32(ExpOf(aVal))
        frac == FracOf(aVal)
        mantissa == POLY(frac, LogPolyCoeffs)
    IN  FAdd(bVal, FMul(mantissa, FSub(frac, leadingOne)))

\* one lane of the loop body of volk_32f_log2_32f_{a,u}_avx2
Lane_avx2(aVal) ==
    LET bVal == CvtI32(ExpOf(aVal))
        frac == FracOf(aVal)
        mantissa == POLY(frac, LogPolyCoeffs)
    IN  FAdd(FMul(mantissa, FSub(frac, leadingOne)), bVal)

\* one lane of the loop body of volk_32f_log2_32f_{a,u}_avx2_fma
Lane_avx2_fma(aVal) ==
    LET bVal == CvtI32(ExpOf(aVal))
        frac == FracOf(aVal)
        mantissa == POLY_FMAAVX2(frac, LogPolyCoeffs)
    IN  FMAdd(mantissa, FSub(frac, leadingOne), bVal)

\* VLOG2Q_NEON_PREAMBLE: one = 0x000800000, and p0 .. p6 as vdupq_n_f32 rounds
\* the double literals: 0xc0429005, 0x40c39d65, 0xc0aaf193, 0x4052567d,
\* 0xbfa22a61, 0x3e8ce04d, 0xbcd2761e
one == F32(0, 1, 0)

NeonCoeffs ==
    << F32(1, 128, 4362245), F32(0, 129, 4431205), F32(1, 129, 2814355),
       F32(0, 128, 5396093), F32(1, 127, 2239073), F32(0, 125, 843853),
       F32(1, 121, 5404190) >>

\* VLOG2Q_NEON_F32 from the two converted vectors on: the running sum log2_approx
\* and the powers of the significand
NeonSum(exponent_f, significand_f) ==
    LET p == NeonCoeffs
        l0 == FAdd(exponent_f, p[1])
        l1 == FAdd(l0, FMul(significand_f, p[2]))
        sig_2 == FMul(significand_f, significand_f)
        l2 == FAdd(l1, FMul(sig_2, p[3]))
        sig_3 == FMul(sig_2, significand_f)
        l3 == FAdd(l2, FMul(sig_3, p[4]))
        sig_4 == FMul(sig_2, sig_2)
        l4 == FAdd(l3, FMul(sig_4, p[5]))
        sig_5 == FMul(sig_3, sig_2)
        l5 == FAdd(l4, FMul(sig_5, p[6]))
        sig_6 == FMul(sig_3, sig_3)
    IN  FAdd(l5, FMul(sig_6, p[7]))

\* VLOG2Q_NEON_F32, one lane
Lane_neon(aval) ==
    LET exponent_i == Srl23(AndBits(aval, exp_mask))
        significand_i == OrBits(one, AndBits(aval, sig_mask))
    IN  NeonSum(CvtI32(exponent_i - bias), CvtFixed(PatternInt(significand_i), 23))

(***************************************************************************)
(* log2f of <math.h>.  Special values as C Annex F gives them; a finite    *)
(* positive x = 2^E * m, m in [1, 2), gives the binary32 nearest to        *)
(* E + log2(m), with log2(m) developed to 48 binary digits by the squaring *)
(* recurrence (m := m^2; digit 1 and m := m/2 when m >= 2) on 60-bit fixed *)
(* point, five limbs.                                                      *)
(***************************************************************************)
\* the ten limbs of y * y for a five-limb y
Sqr5(y) ==
    LET t1 == y[1] * y[1]
        t2 == 2 * y[1] * y[2] + t1 \div LimbBase
        t3 == 2 * y[1] * y[3] + y[2] * y[2] + t2 \div LimbBase
        t4 == 2 * (y[1] * y[4] + y[2] * y[3]) + t3 \div LimbBase
        t5 == 2 * (y[1] * y[5] + y[2] * y[4]) + y[3] * y[3] + t4 \div LimbBase
        t6 == 2 * (y[2] * y[5] + y[3] * y[4]) + t5 \div LimbBase
        t7 == 2 * y[3] * y[5] + y[4] * y[4] + t6 \div LimbBase
        t8 == 2 * y[4] * y[5] + t7 \div LimbBase
        t9 == y[5] * y[5] + t8 \div LimbBase
    IN  << t1 % LimbBase, t2 % LimbBase, t3 % LimbBase, t4 % LimbBase,
           t5 % LimbBase, t6 % LimbBase, t7 % LimbBase, t8 % LimbBase,
           t9 % LimbBase, t9 \div LimbBase >>

\* 2 * T + b for a five-limb T below 2^59 and a bit b
Dbl5(T, b) ==
    LET u1 == 2 * T[1] + b
        u2 == 2 * T[2] + u1 \div LimbBase
        u3 == 2 * T[3] + u2 \div LimbBase
        u4 == 2 * T[4] + u3 \div LimbBase
        u5 == 2 * T[5] + u4 \div LimbBase
    IN  << u1 % LimbBase, u2 % LimbBase, u3 % LimbBase, u4 % LimbBase, u5 >>

\* 1.0 in the 60-bit fixed point: 2^59
FixedOne == << 0, 0, 0, 0, Pow2(11) >>

\* the high five limbs of a ten-limb square: the square scaled back to 60 bits
High5(sq) == << sq[6], sq[7], sq[8], sq[9], sq[10] >>

\* k more digits of log2(y / 2^59) for y in [2^59, 2^60), appended to acc;
\* the result carries the y the next digit starts from.  log2(1) = 0: once y
\* is exactly 1.0 every further digit is 0.
RECURSIVE Log2Digits(_, _, _)
\* one digit from the square sq of y: 1 when y^2 >= 2 (and y := y^2 / 2)
Log2Step(sq, k, acc) ==
    IF sq[10] >= Pow2(11)
    THEN Log2Digits(High5(sq), k - 1, 2 * acc + 1)
    ELSE Log2Digits(Dbl5(High5(sq), sq[5] \div Pow2(11)), k - 1, 2 * acc)

Log2Digits(y, k, acc) ==
    IF k = 0 THEN [y |-> y, acc |-> acc]
    ELSE IF y = FixedOne THEN [y |-> y, acc |-> acc * Pow2(k)]
    ELSE Log2Step(Sqr5(y), k, acc)

\* the binary32 nearest to E + (hi * 2^24 + lo) / 2^48
Log2Round(E, hi, lo) ==
    LET frac == BStrip(<< lo % LimbBase, lo \div LimbBase,
                          hi % LimbBase, hi \div LimbBase >>)
        absE == BShl(BFromInt(IF E < 0 THEN -E ELSE E), 48)
    IN  IF E < 0 THEN RoundPack(1, BSub(absE, frac), -48)
        ELSE RoundPack(0, BAdd(absE, frac), -48)

\* the second 24 digits follow the first 24
Log2Low(E, hi) == Log2Round(E, hi.acc, Log2Digits(hi.y, 24, 0).acc)

\* log2 of a finite positive binary32 value
Log2Finite(x) ==
    LET L == IntBitLen(Sig(x))
        E == Exp(x) + L - 1
        m == Sig(x) * Pow2(24 - L)
    IN  Log2Low(E, Log2Digits(<< 0, 0, 0, m % LimbBase, m \div LimbBase >>, 24, 0))

log2f(x) ==
    IF IsNaN(x) THEN F32(x.s, 255, BitOr(x.f, Pow2(22)))
    ELSE IF IsZero(x) THEN NegInf
    ELSE IF x.s = 1 THEN F32(libm_nan_sign, 255, Pow2(22))
    ELSE IF IsInf(x) THEN PosInf
    ELSE Log2Finite(x)

\* copysignf127 with the sign dropped: fabsf in place of copysignf
copysignf127_abs(r) == F32(0, 133, 8257536)

\* copysignf(127.0f, r): 127.0f is 0x42fe0000
copysignf127(r) == F32(r.s, 133, 8257536)

\* isinf(result) ? copysignf(127.0f, result) : result
Saturate_non_ieee(result) ==
    IF IsInf(result) THEN copysignf127(result) ELSE result

\* log2f_non_ieee: result = log2f(f), then the saturation
log2f_non_ieee(f) == Saturate_non_ieee(log2f(f))

\* Saturate_u_generic with the test left out: the log2f result as it is
Saturate_none(result) == result

\* isinf(result) ? -127.0f : result
Saturate_u_generic(result) ==
    IF IsInf(result) THEN F32(1, 133, 8257536) ELSE result

\* log2f_u_generic with the sign of the constant lost: 127.0f for -127.0f
log2f_u_generic_plus(f) ==
    IF IsInf(log2f(f)) THEN F32(0, 133, 8257536) ELSE log2f(f)

\* the element step of volk_32f_log2_32f_u_generic: result = log2f(*aPtr++),
\* then the saturation
log2f_u_generic(f) == Saturate_u_generic(log2f(f))

(***************************************************************************)
(* The kernels.  A call runs one variant on (bVector, aVector, num_points);*)
(* addresses count binary32 elements.  A vector iteration is two steps,    *)
(* the load of a group and the store of its results; an element of the     *)
(* scalar loop is two steps likewise, so that concurrent calls interleave  *)
(* at every memory access.                                                 *)
(***************************************************************************)
Variants ==
    { "generic", "u_generic", "a_sse4_1", "u_sse4_1", "a_avx2", "u_avx2",
      "a_avx2_fma", "u_avx2_fma", "neon" }

ScalarVariants == { "generic", "u_generic" }

\* the number of elements one iteration of the variant's main loop handles
Width(v) ==
    IF v \in { "a_sse4_1", "u_sse4_1", "neon" } THEN 4
    ELSE IF v \in ScalarVariants THEN 1
    ELSE 8

\* aligned loads and stores (_mm_load_ps, _mm256_load_ps) need both addresses
\* to be multiples of the vector size
Aligned(v) == v \in { "a_sse4_1", "a_avx2", "a_avx2_fma" }

\* the scalar kernel that runs the tail: the kernels of the _a_ header call
\* volk_32f_log2_32f_generic, those of the _u_ header volk_32f_log2_32f_u_generic
TailKernel(v) ==
    IF v \in { "generic", "a_sse4_1", "a_avx2", "a_avx2_fma", "neon" } THEN "generic"
    ELSE "u_generic"

\* the element function of a scalar kernel
ScalarElem(k, f) ==
    IF k = "generic" THEN log2f_non_ieee(f) ELSE log2f_u_generic(f)

\* one lane of the variant's vector body
Lane(v, aVal) ==
    IF v \in { "a_sse4_1", "u_sse4_1" } THEN Lane_sse4_1(aVal)
    ELSE IF v \in { "a_avx2", "u_avx2" } THEN Lane_avx2(aVal)
    ELSE IF v \in { "a_avx2_fma", "u_avx2_fma" } THEN Lane_avx2_fma(aVal)
    ELSE Lane_neon(aVal)

\* quarterPoints = num_points / 4, eighthPoints = num_points / 8
GroupPoints(v, num_points) == num_points \div Width(v)

\* TailStart with the width left out: number = quarterPoints
TailStart_points(v, points) == points

\* number = quarterPoints * 4, number = eighthPoints * 8
TailStart(v, points) == points * Width(v)

\* TailPoints with the whole length handed on: num_points
TailPoints_whole(num_points, number) == num_points

\* the count handed to the scalar kernel: num_points - number
TailPoints(num_points, number) == num_points - number

\* Advance by one element for a whole group: aPtr++, bPtr++
Advance_one(v, ptr) == ptr + 1

\* Advance that leaves the groups overlapping by one element: aPtr += 3 (7)
Advance_overlap(v, ptr) == ptr + Width(v) - 1

\* aPtr += 4, bPtr += 4 (8 in the 256-bit kernels)
Advance(v, ptr) == ptr + Width(v)

(***************************************************************************)
(* The caller's side: buffers and their contents.                          *)
(***************************************************************************)
MaxGroups == 1

MaxTail == 3

MaxCalls == 2

\* elements per buffer: the longest input and at least one element beyond it
BufLen == 8 * (MaxGroups + 1)

MemSize == 2 * MaxCalls * BufLen

Addrs == 0..(MemSize - 1)

\* what an output buffer holds before the call: a signalling NaN, 0x7fa00000,
\* which no kernel stores
Poison == F32(0, 255, Pow2(21))

\* the values the caller's inputs are drawn from
Samples ==
    << PosInf,                      \* +infinity
       F32(0, 127, 0),              \* 1.0
       F32(0, 0, 0),                \* +0
       F32(0, 127, Pow2(22)),       \* 1.5
       NegInf,                      \* -infinity
       F32(0, 137, 0),              \* 1024.0
       F32(0, 0, 1),                \* 2^-149, the least subnormal
       F32(0, 126, 0),              \* 0.5
       F32(1, 127, 0),              \* -1.0
       F32(0, 254, Pow2(23) - 1),   \* the greatest finite value
       F32(0, 0, Pow2(22)),         \* 2^-127, subnormal
       F32(0, 255, Pow2(22)),       \* a quiet NaN
       F32(0, 128, 0),              \* 2.0
       F32(1, 0, 0),                \* -0
       F32(0, 117, 201327),         \* 0.001
       F32(0, 1, 0) >>              \* 2^-126, the least normal

\* element i of the input the caller prepared from seed sd
Input(sd, i) == Samples[((sd + i) % Len(Samples)) + 1]

aBase(c) == 2 * (c - 1) * BufLen

bBase(c) == aBase(c) + BufLen

\* the lengths a caller passes to variant v
Lengths(v) ==
    { g * Width(v) + t : g \in 0..MaxGroups,
                         t \in { u \in 0..MaxTail : Width(v) = 1 \/ u < Width(v) } }

\* the locals of call c as it enters variant v
NewCall(c, v, n, sd) ==
    [ variant |-> v, bVector |-> bBase(c), aVector |-> aBase(c), num_points |-> n,
      seed |-> sd,
      bPtr |-> bBase(c), aPtr |-> aBase(c), number |-> 0,
      points |-> GroupPoints(v, n),
      aVal |-> << >>,
      g_num_points |-> IF v \in ScalarVariants THEN n ELSE 0,
      g_number |-> 0,
      pc |-> IF v \in ScalarVariants THEN "tail" ELSE "loop" ]

\* the memory before the calls: each call's input, and poison elsewhere
InitMem(cs) ==
    [ a \in Addrs |->
        IF \E c \in DOMAIN cs : a >= aBase(c) /\ a < aBase(c) + cs[c].num_points
        THEN LET c == CHOOSE d \in DOMAIN cs :
                          a >= aBase(d) /\ a < aBase(d) + cs[d].num_points
             IN  Input(cs[c].seed, a - aBase(c))
        ELSE Poison ]

Init ==
    /\ libm_nan_sign \in 0..1
    /\ \E v \in Variants : \E n \in Lengths(v) : \E sd \in 0..(Len(Samples) - 1) :
         call = [ c \in {1} |-> NewCall(c, v, n, sd) ]
    /\ mem = InitMem(call)
    /\ stores = [ a \in Addrs |-> 0 ]

(***************************************************************************)
(* The steps of a call.                                                    *)
(***************************************************************************)
\* aVal = _mm_load_ps(aPtr) / _mm_loadu_ps / _mm256_load(u)_ps / vld1q_s32
VecLoad(c) ==
    LET k == call[c]
    IN  /\ k.pc = "loop"
        /\ k.number < k.points
        /\ call' = [call EXCEPT ![c].aVal =
                        [ i \in 1..Width(k.variant) |-> mem[k.aPtr + i - 1] ],
                                ![c].pc = "store"]
        /\ UNCHANGED << mem, stores, libm_nan_sign >>

\* the body of the iteration and _mm_store_ps(bPtr, bVal) / storeu / vst1q_f32,
\* then aPtr += W; bPtr += W; number++
VecStore(c) ==
    LET k == call[c]
        W == Width(k.variant)
        bVal == [ i \in 1..W |-> Lane(k.variant, k.aVal[i]) ]
        lanes == { k.bPtr + i - 1 : i \in 1..W }
    IN  /\ k.pc = "store"
        /\ mem' = [ a \in Addrs |-> IF a \in lanes THEN bVal[a - k.bPtr + 1] ELSE mem[a] ]
        /\ stores' = [ a \in Addrs |-> IF a \in lanes THEN stores[a] + 1 ELSE stores[a] ]
        /\ call' = [call EXCEPT ![c].aPtr = Advance(k.variant, k.aPtr),
                                ![c].bPtr = Advance(k.variant, k.bPtr),
                                ![c].number = k.number + 1,
                                ![c].aVal = << >>,
                                ![c].pc = "loop"]
        /\ UNCHANGED libm_nan_sign

\* the loop is over: number = points * W, and the scalar kernel is called with
\* (bPtr, aPtr, num_points - number)
EnterTail(c) ==
    LET k == call[c]
        number == TailStart(k.variant, k.points)
    IN  /\ k.pc = "loop"
        /\ ~(k.number < k.points)
        /\ call' = [call EXCEPT ![c].number = number,
                                ![c].g_num_points = TailPoints(k.num_points, number),
                                ![c].g_number = 0,
                                ![c].pc = "tail"]
        /\ UNCHANGED << mem, stores, libm_nan_sign >>

\* TailLoad with the element read kept in a static local: every call that is
\* about to store sees the element read last
TailLoad_static(c) ==
    LET k == call[c]
    IN  /\ k.pc = "tail"
        /\ k.g_number < k.g_num_points
        /\ call' = [ d \in DOMAIN call |->
                        IF d = c
                        THEN [k EXCEPT !.aVal = << mem[k.aPtr] >>,
                                       !.aPtr = k.aPtr + 1,
                                       !.pc = "tail_store"]
                        ELSE IF call[d].pc = "tail_store"
                        THEN [call[d] EXCEPT !.aVal = << mem[k.aPtr] >>]
                        ELSE call[d] ]
        /\ UNCHANGED << mem, stores, libm_nan_sign >>

\* the scalar loop reads *aPtr++
TailLoad(c) ==
    LET k == call[c]
    IN  /\ k.pc = "tail"
        /\ k.g_number < k.g_num_points
        /\ call' = [call EXCEPT ![c].aVal = << mem[k.aPtr] >>,
                                ![c].aPtr = k.aPtr + 1,
                                ![c].pc = "tail_store"]
        /\ UNCHANGED << mem, stores, libm_nan_sign >>

\* *bPtr++ = the saturated log2f of the element read; number++
TailStore(c) ==
    LET k == call[c]
    IN  /\ k.pc = "tail_store"
        /\ mem' = [mem EXCEPT ![k.bPtr] = ScalarElem(TailKernel(k.variant), k.aVal[1])]
        /\ stores' = [stores EXCEPT ![k.bPtr] = stores[k.bPtr] + 1]
        /\ call' = [call EXCEPT ![c].bPtr = k.bPtr + 1,
                                ![c].g_number = k.g_number + 1,
                                ![c].aVal = << >>,
                                ![c].pc = "tail"]
        /\ UNCHANGED libm_nan_sign

\* the scalar loop is over and the call returns
Return(c) ==
    LET k == call[c]
    IN  /\ k.pc = "tail"
        /\ ~(k.g_number < k.g_num_points)
        /\ call' = [call EXCEPT ![c].pc = "done"]
        /\ UNCHANGED << mem, stores, libm_nan_sign >>

Calls == 1..MaxCalls

Next ==
    \/ \E c \in Calls : c \in DOMAIN call /\ VecLoad(c)
    \/ \E c \in Calls : c \in DOMAIN call /\ VecStore(c)
    \/ \E c \in Calls : c \in DOMAIN call /\ EnterTail(c)
    \/ \E c \in Calls : c \in DOMAIN call /\ TailLoad(c)
    \/ \E c \in Calls : c \in DOMAIN call /\ TailStore(c)
    \/ \E c \in Calls : c \in DOMAIN call /\ Return(c)

Spec == Init /\ [][Next]_vars

(***************************************************************************)
(* Concurrent calls: MaxCalls calls at once, each on its own pair of       *)
(* buffers, interleaved at every load and store.                           *)
(***************************************************************************)
\* the variants run concurrently: a scalar kernel and a vector kernel
ConcVariants == { "generic", "u_avx2" }

\* one full group and one tail element (two elements for a scalar kernel)
ConcLength(v) == Width(v) + 1

\* the seeds of the first call's input; call c takes the seed 3 * (c - 1) further
\* on, so that no two calls have the same input
ConcSeeds == { 4 * j : j \in 0..3 }

InitConc ==
    /\ libm_nan_sign \in 0..1
    /\ \E vs \in [Calls -> ConcVariants] : \E sd \in ConcSeeds :
         call = [ c \in Calls |-> NewCall(c, vs[c], ConcLength(vs[c]), sd + 3 * (c - 1)) ]
    /\ mem = InitMem(call)
    /\ stores = [ a \in Addrs |-> 0 ]

SpecConc == InitConc /\ [][Next]_vars

(***************************************************************************)
(* What a call is observed by.                                             *)
(***************************************************************************)
\* the call has returned
Done(c) == c \in DOMAIN call /\ call[c].pc = "done"

\* the indices of the call's buffers
Indices(c) == 0..(call[c].num_points - 1)

\* input[i] as the caller prepared it
In(c, i) == Input(call[c].seed, i)

\* output[i] as memory holds it
Out(c, i) == mem[call[c].bVector + i]

\* the first index the vector loop leaves to the scalar kernel
VectorEnd(v, n) == IF v \in ScalarVariants THEN 0 ELSE TailStart(v, GroupPoints(v, n))

\* what a call of variant v on n elements, run alone, stores at index i for the
\* input element x
KernelOut(v, n, i, x) ==
    IF i < VectorEnd(v, n) THEN Lane(v, x) ELSE ScalarElem(TailKernel(v), x)

\* the unaligned kernel of the same width and fusion
Unaligned(v) ==
    IF v = "a_sse4_1" THEN "u_sse4_1"
    ELSE IF v = "a_avx2" THEN "u_avx2"
    ELSE IF v = "a_avx2_fma" THEN "u_avx2_fma"
    ELSE v

\* 127.0f with sign s
Sat127(s) == F32(s, 133, 8257536)

\* the error bound, taken generously: 2^-7
Epsilon == F32(0, 120, 0)

\* |y - r| <= Epsilon
WithinEps(y, r) ==
    LET d == FSub(y, r)
    IN  d.e < 255 /\ PatternInt(d) <= PatternInt(Epsilon)

\* x is a positive finite value, normal or subnormal
PositiveFinite(x) == x.s = 0 /\ x.e < 255 /\ ~IsZero(x)

\* x = 2^k for an integer k
IsPow2(x) == PositiveFinite(x) /\ Sig(x) = Pow2(IntBitLen(Sig(x)) - 1)

\* the k of x = 2^k
Log2OfPow2(x) == Exp(x) + IntBitLen(Sig(x)) - 1

(***************************************************************************)
(* The properties.                                                         *)
(***************************************************************************)
\* C1: the writes of one call are exactly output[0 .. N-1]: no address is
\* stored to twice, every store falls on an output index below N, the input
\* buffer is never stored to and still holds what the caller prepared, and
\* once the call has returned every output index below N was stored to once.
C1_WritesExactlyOutput ==
    \A c \in DOMAIN call :
        LET k == call[c]
        IN  /\ \A a \in Addrs :
                 stores[a] > 0 =>
                    /\ stores[a] = 1
                    /\ a >= k.bVector
                    /\ a < k.bVector + k.num_points
            /\ \A i \in Indices(c) :
                 /\ stores[k.aVector + i] = 0
                 /\ mem[k.aVector + i] = In(c, i)
            /\ k.pc = "done" => \A i \in Indices(c) : stores[k.bVector + i] = 1

\* a returned 4-wide call on 7 elements: one group and a tail of three
C1_Witness ==
    \E c \in DOMAIN call :
        /\ Done(c)
        /\ call[c].variant = "a_sse4_1"
        /\ call[c].num_points = 7
        /\ \A i \in 0..6 : stores[call[c].bVector + i] = 1
        /\ \A a \in Addrs : a >= call[c].bVector + 7 => stores[a] = 0

\* C2: in every vector variant the scalar kernel is entered with both
\* pointers advanced by floor(N/W)*W and with the count N - floor(N/W)*W, and
\* every output from index floor(N/W)*W on is bit for bit what the scalar
\* kernel gives for the input element of that index.
C2_TailIsScalarKernel ==
    \A c \in DOMAIN call :
        LET k == call[c]
            W == Width(k.variant)
            start == (k.num_points \div W) * W
        IN  k.variant \notin ScalarVariants =>
              /\ (k.pc = "tail" /\ k.g_number = 0) =>
                    /\ k.aPtr = k.aVector + start
                    /\ k.bPtr = k.bVector + start
                    /\ k.g_num_points = k.num_points - start
              /\ k.pc = "done" =>
                    \A i \in start..(k.num_points - 1) :
                        Out(c, i) = ScalarElem(TailKernel(k.variant), In(c, i))

\* a returned unaligned 4-wide call on 7 elements whose tail held +infinity
C2_Witness ==
    \E c \in DOMAIN call :
        /\ Done(c)
        /\ call[c].variant = "u_sse4_1"
        /\ call[c].num_points = 7
        /\ In(c, 5) = PosInf
        /\ Out(c, 5) = Sat127(1)
        /\ Out(c, 6) = ScalarElem("u_generic", In(c, 6))

\* C3: an input of +infinity or -infinity gives an output of magnitude 127.0
\* at every index, in the vector region and in the tail alike, and for
\* +infinity its sign is that of the variant's policy.
C3_InfinityGives127 ==
    \A c \in DOMAIN call :
        Done(c) =>
            \A i \in Indices(c) :
                /\ In(c, i) \in { PosInf, NegInf } =>
                      Out(c, i) \in { Sat127(0), Sat127(1) }
                /\ In(c, i) = PosInf =>
                      Out(c, i).s = (IF TailKernel(call[c].variant) = "generic" THEN 0 ELSE 1)

C5_NegInfGivesMinus127 ==
    \A c \in DOMAIN call :
        Done(c) =>
            \A i \in Indices(c) :
                (i >= VectorEnd(call[c].variant, call[c].num_points) /\ In(c, i) = NegInf)
                    => Out(c, i) = Sat127(1)

\* C5, amended: the element whose log2 is -infinity is zero, and a zero handled
\* by a scalar kernel gives -127.0 under both policies; an element of
\* -infinity has no log2, log2f returns a NaN for it and the NaN is stored.
C5_ZeroGivesMinus127 ==
    \A c \in DOMAIN call :
        Done(c) =>
            \A i \in Indices(c) :
                i >= VectorEnd(call[c].variant, call[c].num_points) =>
                    /\ IsZero(In(c, i)) => Out(c, i) = Sat127(1)
                    /\ In(c, i) = NegInf => IsNaN(Out(c, i))

\* a returned volk_32f_log2_32f_u_generic call that met a zero and -infinity
C5_Witness ==
    \E c \in DOMAIN call :
        /\ Done(c)
        /\ call[c].variant = "u_generic"
        /\ \E i \in Indices(c) : IsZero(In(c, i)) /\ Out(c, i) = Sat127(1)
        /\ \E i \in Indices(c) : In(c, i) = NegInf /\ IsNaN(Out(c, i))

\* C6: an aligned kernel's output is, at every index below N, bit for bit the
\* output of the unaligned kernel of the same width and fusion on the same
\* input, tail indices included.
C6_AlignedEqualsUnaligned ==
    \A c \in DOMAIN call :
        (Done(c) /\ Aligned(call[c].variant)) =>
            \A i \in Indices(c) :
                Out(c, i) = KernelOut(Unaligned(call[c].variant), call[c].num_points,
                                      i, In(c, i))

\* C7: for every positive finite input element, normal or subnormal, the
\* output is within Epsilon of log2 of the element, in the vector region and
\* in the tail.
C7_WithinEpsilon ==
    \A c \in DOMAIN call :
        Done(c) =>
            \A i \in Indices(c) :
                PositiveFinite(In(c, i)) => WithinEps(Out(c, i), log2f(In(c, i)))

\* C8: for every input element 2^k the output is within Epsilon of k, and in
\* the vector region of the SSE4.1, AVX2 and AVX2+FMA kernels an element with
\* a zero significand field gives exactly the unbiased exponent as a float.
C8_PowersOfTwo ==
    \A c \in DOMAIN call :
        Done(c) =>
            \A i \in Indices(c) :
                /\ IsPow2(In(c, i)) =>
                      WithinEps(Out(c, i), CvtI32(Log2OfPow2(In(c, i))))
                /\ ( /\ call[c].variant # "neon"
                     /\ i < VectorEnd(call[c].variant, call[c].num_points)
                     /\ In(c, i).f = 0 )
                      => Out(c, i) = CvtI32(In(c, i).e - bias)

\* C9: when all the concurrent calls have returned, whatever the interleaving
\* of their loads and stores was, each call's output is what the call stores
\* when it runs alone, and each call's input is as its caller prepared it.
C9_Reentrant ==
    (\A c \in DOMAIN call : call[c].pc = "done") =>
        \A c \in DOMAIN call :
            \A i \in Indices(c) :
                /\ Out(c, i) = KernelOut(call[c].variant, call[c].num_points, i, In(c, i))
                /\ mem[call[c].aVector + i] = In(c, i)

\* two calls of different variants have both returned, each with its output
\* stored
C9_Witness ==
    /\ \A c \in DOMAIN call : call[c].pc = "done"
    /\ \E c, d \in DOMAIN call :
         /\ call[c].variant = "generic"
         /\ call[d].variant = "u_avx2"
         /\ \A i \in Indices(c) : stores[call[c].bVector + i] = 1
         /\ \A i \in Indices(d) : stores[call[d].bVector + i] = 1

\* C10: no output element is ever +infinity or -infinity, whatever the input
\* elements are.
C10_NoInfinityStored ==
    \A c \in DOMAIN call :
        \A i \in Indices(c) : ~IsInf(Out(c, i))

\* a returned call that met +infinity in its tail and a zero in its vector group
C10_Witness ==
    \E c \in DOMAIN call :
        /\ Done(c)
        /\ call[c].variant = "u_avx2_fma"
        /\ call[c].num_points = 9
        /\ In(c, 8) = PosInf /\ Out(c, 8) = Sat127(1)
        /\ \E i \in 0..7 : IsZero(In(c, i)) /\ Out(c, i) = Sat127(1)

\* Horner's scheme on the degree-6 table, every product and every sum rounded:
\* c0 + m*(c1 + m*(c2 + m*(c3 + m*(c4 + m*c5)))) with c0 = 3.1157899,
\* c1 = -3.3241990, c2 = 2.5988452, c3 = -1.2315303, c4 = 0.31821337,
\* c5 = -0.034436006
HornerP(m) ==
    FAdd(F32(0, 128, 4679962),
         FMul(m, FAdd(F32(1, 128, 5554093),
                      FMul(m, FAdd(F32(0, 128, 2511739),
                                   FMul(m, FAdd(F32(1, 127, 1942217),
                                                FMul(m, FAdd(F32(0, 125, 2288861),
                                                             FMul(m, F32(1, 122, 855237)))))))))))

\* the same scheme with every product-and-sum fused
HornerP_fused(m) ==
    FMAdd(m, FMAdd(m, FMAdd(m, FMAdd(m, FMAdd(m, F32(1, 122, 855237),
                                              F32(0, 125, 2288861)),
                                     F32(1, 127, 1942217)),
                            F32(0, 128, 2511739)),
                   F32(1, 128, 5554093)),
          F32(0, 128, 4679962))

\* the exponent field less 127, as a float
FieldE(x) == CvtI32(x.e - 127)

\* the significand 1.f of the fraction field
FieldM(x) == F32(0, 127, x.f)

\* E + P(m)*(m - 1)
Weighted(x) ==
    FAdd(FieldE(x), FMul(HornerP(FieldM(x)), FSub(FieldM(x), F32(0, 127, 0))))

\* E + P(m)*(m - 1) with fused multiply-adds
Weighted_fused(x) ==
    FMAdd(HornerP_fused(FieldM(x)), FSub(FieldM(x), F32(0, 127, 0)), FieldE(x))

\* the vector variants that have no fused multiply-add
Unfused(v) == v \in { "a_sse4_1", "u_sse4_1", "a_avx2", "u_avx2", "neon" }

\* C11 as stated: in every vector variant, NEON included, the value stored for
\* a vector-processed element is E + P(m)*(m - 1), P by Horner's scheme on the
\* degree-6 table.
C11_AllWeighted ==
    \A c \in DOMAIN call :
        Done(c) =>
            \A i \in Indices(c) :
                i < VectorEnd(call[c].variant, call[c].num_points) =>
                    Out(c, i) = (IF Unfused(call[c].variant) THEN Weighted(In(c, i))
                                 ELSE Weighted_fused(In(c, i)))

\* C11, amended: the SSE4.1, AVX2 and AVX2+FMA kernels store E + P(m)*(m - 1),
\* P by Horner's scheme on the degree-6 table (fused in the FMA kernels); the
\* NEON kernel stores E + p0 + p1*m + ... + p6*m^6 on its own table of seven
\* coefficients, a sum of powers added to the exponent with no weight.
C11_WeightedExceptNeon ==
    \A c \in DOMAIN call :
        Done(c) =>
            \A i \in Indices(c) :
                i < VectorEnd(call[c].variant, call[c].num_points) =>
                    Out(c, i) = (IF call[c].variant = "neon"
                                 THEN NeonSum(FieldE(In(c, i)), FieldM(In(c, i)))
                                 ELSE IF Unfused(call[c].variant) THEN Weighted(In(c, i))
                                 ELSE Weighted_fused(In(c, i)))

\* a returned SSE4.1 call whose group held 1.5: 0x3f15c070 is stored
C11_Witness ==
    \E c \in DOMAIN call :
        /\ Done(c)
        /\ call[c].variant = "a_sse4_1"
        /\ call[c].num_points = 4
        /\ In(c, 0) = F32(0, 127, Pow2(22))
        /\ Out(c, 0) = F32(0, 126, 1425520)
        /\ Out(c, 0) = Weighted(In(c, 0))

(***************************************************************************)
(* The counters at their full width.  num_points, number and quarterPoints *)
(* (eighthPoints) are unsigned int, 32 bits: a value is the record of its  *)
(* two 16-bit halves, and the arithmetic is modulo 2^32 as C defines it.   *)
(* A call on a length of that size cannot be stepped through; WideArith    *)
(* is the counter arithmetic of such a call alone: the division before the *)
(* loop and the two statements after it.                                   *)
(***************************************************************************)
HalfBase == 2 ^ 16

U32(hi, lo) == [hi |-> hi, lo |-> lo]

\* n / W for W <= 8
U32Div(n, W) ==
    U32(n.hi \div W, ((n.hi % W) * HalfBase + n.lo) \div W)

\* n * W modulo 2^32 for W <= 8
U32Mul(n, W) ==
    U32((n.hi * W + (n.lo * W) \div HalfBase) % HalfBase, (n.lo * W) % HalfBase)

\* a - b modulo 2^32
U32Sub(a, b) ==
    U32((HalfBase + a.hi - b.hi - (IF a.lo < b.lo THEN 1 ELSE 0)) % HalfBase,
        (HalfBase + a.lo - b.lo) % HalfBase)

U32Less(a, b) == a.hi < b.hi \/ (a.hi = b.hi /\ a.lo < b.lo)

\* the lengths the counter arithmetic is run on: 0, 7, 2^16 - 1, 2^16,
\* 2^31 - 1, 2^31, 2^32 - 8 and 2^32 - 1
WideLengths ==
    { U32(0, 0), U32(0, 7), U32(0, HalfBase - 1), U32(1, 0),
      U32(HalfBase \div 2 - 1, HalfBase - 1), U32(HalfBase \div 2, 0),
      U32(HalfBase - 1, HalfBase - 8), U32(HalfBase - 1, HalfBase - 1) }

\* the counters of a call of variant v on n elements, n at full width
NewWide(v, n) ==
    [ variant |-> v, num32 |-> n, points32 |-> U32(0, 0), number32 |-> U32(0, 0),
      count32 |-> U32(0, 0), pc |-> "wide" ]

\* quarterPoints = num_points / 4; number = quarterPoints * 4; and the count
\* num_points - number the scalar kernel is called with
WideArith(c) ==
    LET k == call[c]
        W == Width(k.variant)
    IN  /\ k.pc = "wide"
        /\ call' = [call EXCEPT
                        ![c].points32 = U32Div(k.num32, W),
                        ![c].number32 = U32Mul(U32Div(k.num32, W), W),
                        ![c].count32 = U32Sub(k.num32, U32Mul(U32Div(k.num32, W), W)),
                        ![c].pc = "done"]
        /\ UNCHANGED << mem, stores, libm_nan_sign >>

\* one call that runs step by step, and the counters of a call of the same
\* variant on a wide length
InitCount ==
    /\ libm_nan_sign \in 0..1
    /\ \E v \in Variants : \E n \in Lengths(v) : \E w \in WideLengths :
         call = [ c \in {1, MaxCalls} |->
                    IF c = 1 THEN NewCall(c, v, n, 0) ELSE NewWide(v, w) ]
    /\ mem = InitMem([ c \in {1} |-> call[c] ])
    /\ stores = [ a \in Addrs |-> 0 ]

NextCount ==
    \/ Next
    \/ \E c \in Calls : c \in DOMAIN call /\ WideArith(c)

SpecCount == InitCount /\ [][NextCount]_vars

\* the number of output elements call c has stored so far, if it went group by
\* group and then element by element
StoredPrefix(c) ==
    LET k == call[c]
    IN  IF k.pc \in { "loop", "store" } THEN k.number * Width(k.variant)
        ELSE VectorEnd(k.variant, k.num_points) + k.g_number

\* where call c stands in its iterations: the vector loop has run k.number
\* times on the groups [j*W, j*W + W), j = 0 .. k.number - 1, in that order, and
\* never more than floor(N/W) times; the scalar loop runs from floor(N/W)*W
\* on, element by element, N - floor(N/W)*W times, which is below W after a
\* vector loop; what has been stored is always the first StoredPrefix(c)
\* elements of the output, each once
CountsOf(c) ==
    LET k == call[c]
        W == Width(k.variant)
        q == k.num_points \div W
        start == VectorEnd(k.variant, k.num_points)
    IN  /\ \A a \in Addrs :
             stores[a] = (IF a >= k.bVector /\ a < k.bVector + StoredPrefix(c)
                          THEN 1 ELSE 0)
        /\ k.pc \in { "loop", "store" } =>
              /\ k.variant \notin ScalarVariants
              /\ k.number <= q
              /\ k.aPtr = k.aVector + k.number * W
              /\ k.bPtr = k.bVector + k.number * W
              /\ k.pc = "store" =>
                    /\ k.number < q
                    /\ k.aVal = [ j \in 1..W |-> In(c, k.number * W + j - 1) ]
        /\ k.pc \in { "tail", "tail_store", "done" } =>
              /\ k.variant \notin ScalarVariants =>
                    /\ start = q * W
                    /\ k.number = q * W
                    /\ k.g_num_points < W
              /\ k.g_num_points = k.num_points - start
              /\ k.g_number <= k.g_num_points
              /\ k.bPtr = k.bVector + start + k.g_number
              /\ k.pc = "tail" => k.aPtr = k.aVector + start + k.g_number
              /\ k.pc = "tail_store" =>
                    /\ k.g_number < k.g_num_points
                    /\ k.aPtr = k.aVector + start + k.g_number + 1
                    /\ k.aVal = << In(c, start + k.g_number) >>
              /\ k.pc = "done" => k.g_number = k.g_num_points

\* the counters at full width: number = floor(N/W)*W does not exceed N, and the
\* count N - number is N mod W, below W, with number + count = N
WideCountsOf(c) ==
    LET k == call[c]
        W == Width(k.variant)
    IN  k.pc = "done" =>
          /\ ~U32Less(k.num32, k.number32)
          /\ k.number32.lo % W = 0
          /\ k.count32 = U32(0, k.num32.lo % W)
          /\ k.count32.lo < W
          /\ k.num32 = U32(k.number32.hi, k.number32.lo + k.count32.lo)

\* the steps call c has left: two per vector iteration, one to enter the
\* scalar kernel, two per scalar iteration and one to return, for
\* floor(N/W) vector iterations and N - floor(N/W)*W scalar ones; one step for
\* the counter arithmetic at full width
Remaining(c) ==
    LET k == call[c]
    IN  IF k.pc = "done" THEN 0
        ELSE IF k.pc = "wide" THEN 1
        ELSE LET W == Width(k.variant)
                 q == k.num_points \div W
                 r == k.num_points - VectorEnd(k.variant, k.num_points)
             IN  IF k.pc = "loop" THEN 2 * (q - k.number) + 2 * r + 2
                 ELSE IF k.pc = "store" THEN 2 * (q - k.number) + 2 * r + 1
                 ELSE IF k.pc = "tail" THEN 2 * (r - k.g_number) + 1
                 ELSE 2 * (r - k.g_number)

DecomposedE(v, x) ==
    IF v = "neon" THEN Srl23(AndBits(x, exp_mask)) - bias ELSE ExpOf(x)

\* the significand a vector body of variant v takes from the element x
DecomposedM(v, x) ==
    IF v = "neon"
    THEN CvtFixed(PatternInt(OrBits(one, AndBits(x, sig_mask))), 23)
    ELSE FracOf(x)

\* 2^E * m = x, as real numbers
ScalesTo(E, m, x) ==
    LET em == Exp(m) + E
        ex == Exp(x)
        lo == IF em < ex THEN em ELSE ex
    IN  BCmp(BShl(BFromInt(Sig(m)), em - lo), BShl(BFromInt(Sig(x)), ex - lo)) = 0

\* 1 <= m < 2
InOneTwo(m) == m.s = 0 /\ m.e = 127

\* C13: for every positive finite element a vector iteration has loaded,
\* normal or subnormal, the exponent E and the significand m the body takes
\* from its bit pattern satisfy 1 <= m < 2 and 2^E * m = x exactly, and the
\* NEON body takes the same E and m as the SSE4.1 and AVX2 bodies.
C13_ExactRoundTrip ==
    \A c \in DOMAIN call :
        call[c].pc = "store" =>
            \A i \in 1..Len(call[c].aVal) :
                LET x == call[c].aVal[i]
                    v == call[c].variant
                IN  PositiveFinite(x) =>
                        /\ InOneTwo(DecomposedM(v, x))
                        /\ ScalesTo(DecomposedE(v, x), DecomposedM(v, x), x)
                        /\ DecomposedE(v, x) = DecomposedE("a_sse4_1", x)
                        /\ DecomposedM(v, x) = DecomposedM("a_sse4_1", x)

\* the same for the normal elements only, where it holds
C13_NormalRoundTrip ==
    \A c \in DOMAIN call :
        call[c].pc = "store" =>
            \A i \in 1..Len(call[c].aVal) :
                LET x == call[c].aVal[i]
                    v == call[c].variant
                IN  PositiveFinite(x) =>
                        /\ InOneTwo(DecomposedM(v, x))
                        /\ x.e > 0 => ScalesTo(DecomposedE(v, x), DecomposedM(v, x), x)
                        /\ DecomposedE(v, x) = DecomposedE("a_sse4_1", x)
                        /\ DecomposedM(v, x) = DecomposedM("a_sse4_1", x)

\* a NEON iteration has loaded the subnormal 2^-127 and takes E = -127, m = 1.5
C13_SubnormalLoaded ==
    \E c \in DOMAIN call :
        /\ call[c].pc = "store"
        /\ call[c].variant = "neon"
        /\ call[c].aVal[1] = F32(0, 0, Pow2(22))
        /\ DecomposedE("neon", call[c].aVal[1]) = -127
        /\ DecomposedM("neon", call[c].aVal[1]) = F32(0, 127, Pow2(22))
        /\ ~ScalesTo(-127, F32(0, 127, Pow2(22)), call[c].aVal[1])

(***************************************************************************)
(* The call in place: bVector = aVector.  The parameters are not restrict- *)
(* qualified, so the call is defined; loads and stores go to one buffer.   *)
(***************************************************************************)
\* the locals of a call whose output buffer is its input buffer
InPlace(k) == [k EXCEPT !.bVector = k.aVector, !.bPtr = k.aPtr]

InitInPlace ==
    /\ libm_nan_sign \in 0..1
    /\ \E v \in Variants : \E n \in Lengths(v) : \E sd \in 0..(Len(Samples) - 1) :
         call = [ c \in {1} |-> InPlace(NewCall(c, v, n, sd)) ]
    /\ mem = InitMem(call)
    /\ stores = [ a \in Addrs |-> 0 ]

SpecInPlace == InitInPlace /\ [][Next]_vars

\* C14: in a call with bVector = aVector every load, of a group or of a
\* scalar element, delivers the elements the caller prepared (no position it
\* reads has been stored to), and the returned call has stored at every index
\* exactly what the call with separate buffers stores there.
C14_InPlaceSafe ==
    \A c \in DOMAIN call :
        LET k == call[c]
            v == k.variant
        IN  /\ k.bVector = k.aVector
            /\ k.pc = "store" =>
                  \A i \in 1..Width(v) :
                      k.aVal[i] = In(c, k.number * Width(v) + i - 1)
            /\ k.pc = "tail_store" =>
                  k.aVal[1] = In(c, VectorEnd(v, k.num_points) + k.g_number)
            /\ Done(c) =>
                  \A i \in Indices(c) :
                      Out(c, i) = KernelOut(v, k.num_points, i, In(c, i))

\* an SSE4.1 call in place on 7 elements has returned: the buffer that held
\* 1.5 at index 0 and 0.5 at index 4 now holds their logarithms
C14_Witness ==
    \E c \in DOMAIN call :
        /\ Done(c)
        /\ call[c].variant = "a_sse4_1"
        /\ call[c].bVector = call[c].aVector
        /\ call[c].num_points = 7
        /\ In(c, 0) = F32(0, 127, Pow2(22))
        /\ mem[call[c].aVector] = F32(0, 126, 1425520)
        /\ In(c, 4) = F32(0, 126, 0)
        /\ mem[call[c].aVector + 4] = F32(1, 127, 0)
        /\ \A i \in 0..6 : stores[call[c].aVector + i] = 1

(***************************************************************************)
(* What an output element depends on.                                      *)
(***************************************************************************)
\* C15: in a returned call every index below floor(N/W)*W holds what the
\* vector body gives for the element with its sign bit flipped, two such
\* indices whose elements agree up to the sign bit hold the same value, and
\* every index holds a function of the variant, of the side of
\* floor(N/W)*W the index is on, and of the element at that index alone.
C15_SignIgnoredElementwise ==
    \A c \in DOMAIN call :
        Done(c) =>
            LET v == call[c].variant
                end == VectorEnd(v, call[c].num_points)
            IN  /\ \A i \in Indices(c) :
                       /\ i < end => Out(c, i) = Lane(v, Neg(In(c, i)))
                       /\ i < end => Out(c, i) = Lane(v, In(c, i))
                       /\ i >= end => Out(c, i) = ScalarElem(TailKernel(v), In(c, i))
                /\ \A i, j \in Indices(c) :
                       ( /\ i < end
                         /\ j < end
                         /\ In(c, i) \in { In(c, j), Neg(In(c, j)) } )
                           => Out(c, i) = Out(c, j)

\* an AVX2 call has returned whose group held 1.0 at index 0 and -1.0 at
\* index 7: both outputs are +0
C15_Witness ==
    \E c \in DOMAIN call :
        /\ Done(c)
        /\ call[c].variant = "u_avx2"
        /\ call[c].num_points >= 8
        /\ In(c, 0) = F32(0, 127, 0)
        /\ In(c, 7) = F32(1, 127, 0)
        /\ Out(c, 0) = F32(0, 0, 0)
        /\ Out(c, 7) = F32(0, 0, 0)

====
